---- MODULE Spec2Model ----
(***************************************************************************)
(* lemmy_migrate: the Lemmy account client (src/lemmy.py) and the          *)
(* orchestrator (src/lemmy_migrate.py) as one sequential state machine.    *)
(* The program is single-threaded: pc is the statement the interpreter is  *)
(* at, stack the return labels of the active calls.  Every network request *)
(* is one step whose outcome (success, failure) is chosen by the           *)
(* environment.                                                            *)
(***************************************************************************)
EXTENDS Integers, Sequences, FiniteSets, TLC

\* ---------------------------------------------------------------- bounds
NumSecondary == 2      \* secondary accounts in the configuration file
NumComms == 2          \* communities that exist in the small scenarios
MaxItems == 130        \* largest subscription list of the pagination scenario
MaxFetchFail == 1      \* failed page fetches counted per get_communities call
MaxRuns == 2           \* consecutive sync_subscriptions calls on one pair
MaxLen == 3
MaxCalls == 2            \* longest list handed to subscribe on its own

\* ------------------------------------------------------ program constants
PageLimit == 50        \* payload["limit"], and the loop test fetched == 50
FirstPage == 1         \* payload["page"]
MainAccount == 0       \* accounts["Main Account"]

\* ------------------------------------------------------------------ data
Accounts == 0..NumSecondary
Secondary == 1..NumSecondary

\* A community's actor_id (globally unique) and the numeric id that
\* resolve_object returns for it on a site: two different kinds of value.
Actor(k) == <<"actor_id", k>>
CommunityId(k) == <<"id", k>>
IsActor(r) == r[1] = "actor_id"
ActorIds == {Actor(k) : k \in 1..NumComms}
Refs == ActorIds \cup {CommunityId(k) : k \in 1..NumComms}
\* The two communities x and y of the orchestrator's scenarios.
ScenarioActorIds == {Actor(1), Actor(2)}

\* Optional values of the program (Python's None, a missing file).
None == <<>>
Some(v) == <<v>>
Range(s) == {s[i] : i \in DOMAIN s}
Perms(S) == {f \in [1..Cardinality(S) -> S] : \A i, j \in DOMAIN f : f[i] = f[j] => i = j}
SeqsUpTo(S, n) == UNION {[1..m -> S] : m \in 0..n}
Min(a, b) == IF a < b THEN a ELSE b

VARIABLES
  cfg,               \* the parsed arguments: [u, e, i]
  accounts,          \* the secondary accounts still to iterate over
  server,            \* per account, the subscriptions the site holds
  importFile,        \* the file named by -i: None (unreadable) or Some(json)
  exportFile,        \* the file named by -e
  token,             \* Lemmy._auth_token per client
  user_communities,  \* Lemmy._user_communities per client
  pc, stack,         \* the statement reached, the return labels
  exitStatus,        \* None while running, Some(status) once the process ended
  comms_backup,      \* main's comms_backup
  wb,                \* write_backup's account
  sync,              \* sync_subscriptions' parameters and locals
  gc,                \* get_communities' self, payload["page"], fetched
  sub,               \* subscribe's self, the references left, url, comm_id
  rq,                \* _request_it's call and get_comments' local r
  hist               \* observations of the run (no effect on the program)

vars == <<cfg, accounts, server, importFile, exportFile, token, user_communities,
          pc, stack, exitStatus, comms_backup, wb, sync, gc, sub, rq, hist>>

NoToken == "None"
Jwt == "jwt"

\* ----------------------------------------------------------- observations
\* streak: the parity of the number of failed requests for the current page.
HistCall == [nFetchOk |-> 0, nFetchFail |-> 0, lastPage |-> 0,
             fetchedAfterFail |-> FALSE, gcBefore |-> {}, streak |-> 0]
HistSub == [subList |-> <<>>, trail |-> <<>>, resolved |-> {}, resolveFailed |-> {},
            followed |-> {}, followUnconfirmed |-> {},
            nResolve |-> [r \in Refs |-> 0], nFollow |-> [r \in Refs |-> 0]]
HistSync == [srcSet |-> {}, destSet |-> {}, gcCalled |-> {}, deficit |-> {}]
\* wire: the sleeps and network requests in the order they happened;
\* wrapped: how each call of _request_it ended; comments: how each call of
\* get_comments ended.
HistInit == [loginFailed |-> {}, reqs |-> {}, run |-> 0, prevFailed |-> {}, prevFollowed |-> {},
             fetch |-> HistCall, s |-> HistSub, y |-> HistSync,
             wire |-> <<>>, wrapped |-> <<>>, comments |-> <<>>]

\* _rate_limit: sleep(1).
RateLimitSeconds == 1
\* The methods that call _request_it, by the request they make.
ApiKinds == {"login", "list", "resolve", "follow", "comments"}
\* No call of _request_it in progress; get_comments' r unbound.
NoRq == [kind |-> "login", sends |-> 0, caught |-> None, raised |-> None,
         returned |-> FALSE, r |-> None]

Req(kind, a) == hist.reqs \cup {<<kind, a>>}
\* One iteration of subscribe's loop: the reference, whether it resolved,
\* the follow requests issued for it.
Visit(url, resolved) == [url |-> url, resolved |-> resolved, follows |-> 0]

\* ------------------------------------------------------- the site's reply
\* GET community/list with limit 50 and page p: the p-th slice of the
\* account's subscriptions, in the site's (fixed) order.
Rank(S, r) == Cardinality({q \in S : q[2] <= r[2]})
PageOf(S, p) == {r \in S : Rank(S, r) > (p - 1) * PageLimit /\ Rank(S, r) <= p * PageLimit}

\* ------------------------------------------------------- get_communities
\* The loop test taken for "any page that holds something".
MorePages_NonEmpty(fetched) == fetched > 0

\* while fetched == 50
MorePages(fetched) == fetched = PageLimit

\* The call: payload["page"] = 1, fetched = 50; the caller names where the
\* result is used.
EnterGetCommunities(self, ret) ==
  /\ gc' = [self |-> self, page |-> FirstPage, fetched |-> PageLimit]
  /\ pc' = "gc_loop"
  /\ stack' = <<ret>> \o stack

\* while fetched == 50: the request succeeded. fetched, the page counter and
\* the client's set are updated.
FetchPageOk ==
  /\ pc = "gc_loop"
  /\ MorePages(gc.fetched)
  /\ LET items == PageOf(server[gc.self], gc.page) IN
       /\ gc' = [gc EXCEPT !.fetched = Cardinality(items), !.page = @ + 1]
       /\ user_communities' = [user_communities EXCEPT ![gc.self] = @ \cup items]
  /\ hist' = [hist EXCEPT !.reqs = Req("list", gc.self),
                          !.fetch.nFetchOk = @ + 1,
                          !.fetch.streak = 0,
                          !.fetch.lastPage = gc.page,
                          !.fetch.fetchedAfterFail = @ \/ hist.fetch.nFetchFail > 0]
  /\ UNCHANGED <<rq, cfg, wb, accounts, server, importFile, exportFile, token, pc, stack,
                 exitStatus, comms_backup, sync, sub>>

\* The request raised: the handler prints the error; fetched and the page
\* counter keep their values, so the loop test holds again.
FetchPageFail ==
  /\ pc = "gc_loop"
  /\ MorePages(gc.fetched)
  /\ hist' = [hist EXCEPT !.reqs = Req("list", gc.self),
                          !.fetch.nFetchFail = Min(@ + 1, MaxFetchFail),
                          !.fetch.streak = 1 - @,
                          !.fetch.lastPage = gc.page,
                          !.fetch.fetchedAfterFail = @ \/ hist.fetch.nFetchFail > 0]
  /\ UNCHANGED <<rq, cfg, wb, accounts, server, importFile, exportFile, token, user_communities,
                 pc, stack, exitStatus, comms_backup, sync, gc, sub>>

\* fetched != 50: return self._user_communities.
GetCommunitiesReturn ==
  /\ pc = "gc_loop"
  /\ ~MorePages(gc.fetched)
  /\ pc' = Head(stack)
  /\ stack' = Tail(stack)
  /\ UNCHANGED <<rq, cfg, wb, accounts, server, importFile, exportFile, token, user_communities,
                 exitStatus, comms_backup, sync, gc, sub, hist>>

\* ------------------------------------------------------------- subscribe
\* The call: subscribe(communities) on client self.
EnterSubscribe(self, communities, ret) ==
  /\ sub' = [self |-> self, communities |-> communities, url |-> None, comm_id |-> None]
  /\ pc' = "sub_loop"
  /\ stack' = <<ret>> \o stack

HistSubFor(communities) == [HistSub EXCEPT !.subList = communities]

\* for url in communities: resolve_community(url) returned the numeric id.
\* Only an actor address resolves to a community.
ResolveOk ==
  /\ pc = "sub_loop"
  /\ sub.communities # <<>>
  /\ LET url == Head(sub.communities) IN
       /\ IsActor(url)
       /\ sub' = [sub EXCEPT !.url = url, !.comm_id = CommunityId(url[2])]
       /\ hist' = [hist EXCEPT !.reqs = Req("resolve", sub.self),
                               !.s.trail = Append(@, Visit(url, TRUE)),
                               !.s.resolved = @ \cup {url},
                               !.s.nResolve[url] = @ + 1]
  /\ pc' = "sub_follow"
  /\ UNCHANGED <<rq, cfg, wb, accounts, server, importFile, exportFile, token, user_communities,
                 stack, exitStatus, comms_backup, sync, gc>>

\* A resolution failure that ends the loop instead of skipping the reference.
ResolveFail_Abort ==
  /\ pc = "sub_loop"
  /\ sub.communities # <<>>
  /\ LET url == Head(sub.communities) IN
       /\ sub' = [sub EXCEPT !.url = url, !.comm_id = None, !.communities = <<>>]
       /\ hist' = [hist EXCEPT !.reqs = Req("resolve", sub.self),
                               !.s.trail = Append(@, Visit(url, FALSE)),
                               !.s.resolveFailed = @ \cup {url},
                               !.s.nResolve[url] = @ + 1]
  /\ UNCHANGED <<rq, cfg, wb, accounts, server, importFile, exportFile, token, user_communities,
                 pc, stack, exitStatus, comms_backup, sync, gc>>

\* resolve_community caught the failure of its request and returned None:
\* "if comm_id" is false and the loop takes the next reference.
ResolveFail ==
  /\ pc = "sub_loop"
  /\ sub.communities # <<>>
  /\ LET url == Head(sub.communities) IN
       /\ sub' = [sub EXCEPT !.url = url, !.comm_id = None, !.communities = Tail(@)]
       /\ hist' = [hist EXCEPT !.reqs = Req("resolve", sub.self),
                               !.s.trail = Append(@, Visit(url, FALSE)),
                               !.s.resolveFailed = @ \cup {url},
                               !.s.nResolve[url] = @ + 1]
  /\ UNCHANGED <<rq, cfg, wb, accounts, server, importFile, exportFile, token, user_communities,
                 pc, stack, exitStatus, comms_backup, sync, gc>>

\* POST community/follow answered 200: the site holds the subscription and
\* the client adds the numeric id to _user_communities.
FollowOk ==
  /\ pc = "sub_follow"
  /\ server' = [server EXCEPT ![sub.self] = @ \cup {sub.url}]
  /\ user_communities' = [user_communities EXCEPT ![sub.self] = @ \cup {sub.comm_id}]
  /\ sub' = [sub EXCEPT !.communities = Tail(@)]
  /\ pc' = "sub_loop"
  /\ hist' = [hist EXCEPT !.reqs = Req("follow", sub.self),
                          !.s.followed = @ \cup {sub.url},
                          !.s.trail[Len(hist.s.trail)].follows = @ + 1,
                          !.s.nFollow[sub.url] = @ + 1]
  /\ UNCHANGED <<rq, cfg, wb, accounts, importFile, exportFile, token, stack, exitStatus,
                 comms_backup, sync, gc>>

\* The follow request did not end in a 200 response: what the site did with
\* it is not known to the client (applied), which records nothing.
FollowNoSuccess(applied) ==
  /\ pc = "sub_follow"
  /\ server' = [server EXCEPT ![sub.self] = IF applied THEN @ \cup {sub.url} ELSE @]
  /\ sub' = [sub EXCEPT !.communities = Tail(@)]
  /\ pc' = "sub_loop"
  /\ hist' = [hist EXCEPT !.reqs = Req("follow", sub.self),
                          !.s.followUnconfirmed = @ \cup {sub.url},
                          !.s.trail[Len(hist.s.trail)].follows = @ + 1,
                          !.s.nFollow[sub.url] = @ + 1]
  /\ UNCHANGED <<rq, cfg, wb, accounts, importFile, exportFile, token, user_communities, stack,
                 exitStatus, comms_backup, sync, gc>>

\* A 2xx answer other than 200: raise_for_status passes, status_code == 200 fails.
FollowNot200 == \E applied \in BOOLEAN : FollowNoSuccess(applied)

\* _request_it raised: caught by subscribe's handler, which prints the error.
FollowFail == \E applied \in BOOLEAN : FollowNoSuccess(applied)

\* The list is exhausted: subscribe returns None.
SubscribeReturn ==
  /\ pc = "sub_loop"
  /\ sub.communities = <<>>
  /\ pc' = Head(stack)
  /\ stack' = Tail(stack)
  /\ UNCHANGED <<rq, cfg, wb, accounts, server, importFile, exportFile, token, user_communities,
                 exitStatus, comms_backup, sync, gc, sub, hist>>

\* ---------------------------------------------------- sync_subscriptions
\* Python's truth value of from_backup: None and the empty set are false.
Truthy(from_backup) == from_backup # None /\ from_backup[1] # {}

\* The set the caller asked to be synchronised: the backup when one is
\* given, the source account's subscriptions otherwise.
SourceSet == IF sync.from_backup # None THEN sync.from_backup[1] ELSE server[sync.src_acct]

HistSyncAt(called) == [HistSync EXCEPT !.srcSet = SourceSet,
                                       !.destSet = server[sync.dest_acct],
                                       !.gcCalled = called]
HistFetchFor(self) == [HistCall EXCEPT !.gcBefore = user_communities[self]]

\* if from_backup: src_comms = from_backup; then dest_acct.get_communities().
SyncFromBackup ==
  /\ pc = "sync_entry"
  /\ Truthy(sync.from_backup)
  /\ sync' = [sync EXCEPT !.src_comms = sync.from_backup[1]]
  /\ EnterGetCommunities(sync.dest_acct, "sync_diff")
  /\ hist' = [hist EXCEPT !.y = HistSyncAt({sync.dest_acct}), !.s = HistSub,
                          !.fetch = HistFetchFor(sync.dest_acct)]
  /\ UNCHANGED <<rq, cfg, wb, accounts, server, importFile, exportFile, token, user_communities,
                 exitStatus, comms_backup, sub>>

\* else: src_comms = src_acct.get_communities().
SyncFromSource ==
  /\ pc = "sync_entry"
  /\ ~Truthy(sync.from_backup)
  /\ EnterGetCommunities(sync.src_acct, "sync_src_listed")
  /\ hist' = [hist EXCEPT !.y = HistSyncAt({sync.src_acct}), !.s = HistSub,
                          !.fetch = HistFetchFor(sync.src_acct)]
  /\ UNCHANGED <<rq, cfg, wb, accounts, server, importFile, exportFile, token, user_communities,
                 exitStatus, comms_backup, sync, sub>>

\* src_comms is bound to the source's set; dest_comms = dest_acct.get_communities().
SyncSourceListed ==
  /\ pc = "sync_src_listed"
  /\ sync' = [sync EXCEPT !.src_comms = user_communities[sync.src_acct]]
  /\ EnterGetCommunities(sync.dest_acct, "sync_diff")
  /\ hist' = [hist EXCEPT !.y.gcCalled = @ \cup {sync.dest_acct},
                          !.fetch = HistFetchFor(sync.dest_acct)]
  /\ UNCHANGED <<rq, cfg, wb, accounts, server, importFile, exportFile, token, user_communities,
                 exitStatus, comms_backup, sub>>

\* The difference taken the wrong way round, and no difference taken at all.
Deficit_Reversed(src_comms, dest_comms) == dest_comms \ src_comms
Deficit_Unfiltered(src_comms, dest_comms) == src_comms
\* The membership test inverted: what both sides hold.
Deficit_Inverted(src_comms, dest_comms) == src_comms \cap dest_comms

\* new_communities = [c for c in src_comms if c not in dest_comms], in the
\* iteration order of the set src_comms, which is any order.
Deficit(src_comms, dest_comms) == src_comms \ dest_comms

\* if new_communities: dest_acct.subscribe(new_communities); else return.
SyncDiff ==
  /\ pc = "sync_diff"
  /\ LET dest_comms == user_communities[sync.dest_acct] IN
     \E order \in Perms(Deficit(sync.src_comms, dest_comms)) :
       /\ sync' = [sync EXCEPT !.dest_comms = dest_comms, !.new_communities = order]
       /\ hist' = [hist EXCEPT !.y.deficit = Range(order), !.s = HistSubFor(order),
                               !.fetch = HistCall]
       /\ IF order # <<>>
            THEN EnterSubscribe(sync.dest_acct, order, "sync_return")
            ELSE /\ pc' = Head(stack)
                 /\ stack' = Tail(stack)
                 /\ UNCHANGED sub
  /\ UNCHANGED <<rq, cfg, wb, accounts, server, importFile, exportFile, token, user_communities,
                 exitStatus, comms_backup, gc>>

\* subscribe returned: sync_subscriptions returns None.
SyncReturn ==
  /\ pc = "sync_return"
  /\ pc' = Head(stack)
  /\ stack' = Tail(stack)
  /\ UNCHANGED <<rq, cfg, wb, accounts, server, importFile, exportFile, token, user_communities,
                 exitStatus, comms_backup, sync, gc, sub, hist>>

\* ----------------------------------------------------------- the backup
\* A JSON object is a sequence of <<key, array>> members, an array a sequence.
\* json.dump({account.site_url: list(comms)}): one member, keyed by the
\* site, whose array lists the set in some order.
SortedList(S) == CHOOSE f \in Perms(S) : \A i, j \in DOMAIN f : i < j => f[i][2] <= f[j][2]
JsonDump(site, list) == << <<site, list>> >>

\* A reader that keeps only the first entry of each array.
read_backup_FirstOnly(data) ==
  UNION {IF member[2] = <<>> THEN {} ELSE {Head(member[2])} : member \in Range(data)}

\* comms = {c for k, v in data.items() for c in v}
read_backup(data) == UNION {Range(member[2]) : member \in Range(data)}

\* comms = account.get_communities()
WriteBackupList ==
  /\ pc = "wb_entry"
  /\ EnterGetCommunities(wb, "wb_dump")
  /\ hist' = [hist EXCEPT !.fetch = HistFetchFor(wb)]
  /\ UNCHANGED <<rq, cfg, wb, accounts, server, importFile, exportFile, token, user_communities,
                 exitStatus, comms_backup, sync, sub>>

\* with open(output, "w") as f: json.dump(...): the file holds the object.
WriteBackupDump ==
  /\ pc = "wb_dump"
  /\ \E list \in Perms(user_communities[wb]) :
       exportFile' = Some(JsonDump(wb, list))
  /\ pc' = Head(stack)
  /\ stack' = Tail(stack)
  /\ UNCHANGED <<rq, cfg, wb, accounts, server, importFile, token, user_communities,
                 exitStatus, comms_backup, sync, gc, sub, hist>>

\* open() or the write raised: the exception is logged, no readable file is left.
WriteBackupFail ==
  /\ pc = "wb_dump"
  /\ exportFile' = None
  /\ pc' = Head(stack)
  /\ stack' = Tail(stack)
  /\ UNCHANGED <<rq, cfg, wb, accounts, server, importFile, token, user_communities,
                 exitStatus, comms_backup, sync, gc, sub, hist>>

\* ------------------------------------------------------------------ main
\* sys.exit(status), or main returning (status 0).
Exit(status) ==
  /\ pc' = "exit"
  /\ exitStatus' = Some(status)

\* main_lemming.login(...) succeeded: the token is stored.
MainLoginOk ==
  /\ pc = "main_login"
  /\ token' = [token EXCEPT ![MainAccount] = Jwt]
  /\ pc' = "main_mode"
  /\ hist' = [hist EXCEPT !.reqs = Req("login", MainAccount)]
  /\ UNCHANGED <<rq, cfg, wb, accounts, server, importFile, exportFile, user_communities, stack,
                 exitStatus, comms_backup, sync, gc, sub>>

\* A login whose handler only logs: main goes on without a token.
MainLoginFail_Continue ==
  /\ pc = "main_login"
  /\ pc' = "main_mode"
  /\ hist' = [hist EXCEPT !.reqs = Req("login", MainAccount),
                          !.loginFailed = @ \cup {MainAccount}]
  /\ UNCHANGED <<rq, cfg, wb, accounts, server, importFile, exportFile, token, user_communities,
                 stack, exitStatus, comms_backup, sync, gc, sub>>

\* login's request or its answer raised: login's handler calls sys.exit(1).
MainLoginFail ==
  /\ pc = "main_login"
  /\ Exit(1)
  /\ hist' = [hist EXCEPT !.reqs = Req("login", MainAccount),
                          !.loginFailed = @ \cup {MainAccount}]
  /\ UNCHANGED <<rq, cfg, wb, accounts, server, importFile, exportFile, token, user_communities,
                 stack, comms_backup, sync, gc, sub>>

\* if cfg.e: write_backup(main_lemming, cfg.e)
MainExport ==
  /\ pc = "main_mode"
  /\ cfg.e
  /\ wb' = MainAccount
  /\ pc' = "wb_entry"
  /\ stack' = <<"main_exported">> \o stack
  /\ UNCHANGED <<rq, cfg, accounts, server, importFile, exportFile, token, user_communities,
                 exitStatus, comms_backup, sync, gc, sub, hist>>

\* The return after write_backup left out: main goes on to the accounts.
MainExported_FallThrough ==
  /\ pc = "main_exported"
  /\ pc' = "main_loop"
  /\ UNCHANGED <<rq, cfg, wb, accounts, server, importFile, exportFile, token, user_communities,
                 stack, exitStatus, comms_backup, sync, gc, sub, hist>>

\* ... return
MainExported ==
  /\ pc = "main_exported"
  /\ Exit(0)
  /\ UNCHANGED <<rq, cfg, wb, accounts, server, importFile, exportFile, token, user_communities,
                 stack, comms_backup, sync, gc, sub, hist>>

\* The import flag taken alone.
ImportWanted_IgnoresUpdate == cfg.i

\* if cfg.i and not cfg.u
ImportWanted == cfg.i /\ ~cfg.u

\* ... comms_backup = read_backup(cfg.i)
MainImport ==
  /\ pc = "main_mode"
  /\ ~cfg.e
  /\ ImportWanted
  /\ importFile # None
  /\ comms_backup' = Some(read_backup(importFile[1]))
  /\ pc' = "main_loop"
  /\ UNCHANGED <<rq, cfg, wb, accounts, server, importFile, exportFile, token, user_communities,
                 stack, exitStatus, sync, gc, sub, hist>>

\* read_backup could not read the file: sys.exit(1).
MainImportFail ==
  /\ pc = "main_mode"
  /\ ~cfg.e
  /\ ImportWanted
  /\ importFile = None
  /\ Exit(1)
  /\ UNCHANGED <<rq, cfg, wb, accounts, server, importFile, exportFile, token, user_communities,
                 stack, comms_backup, sync, gc, sub, hist>>

\* comms_backup stays None.
MainNoImport ==
  /\ pc = "main_mode"
  /\ ~cfg.e
  /\ ~ImportWanted
  /\ pc' = "main_loop"
  /\ UNCHANGED <<rq, cfg, wb, accounts, server, importFile, exportFile, token, user_communities,
                 stack, exitStatus, comms_backup, sync, gc, sub, hist>>

\* The roles never swapped: the main account is the source whatever cfg.u says.
SecondaryLoginOk_MainAlwaysSource ==
  /\ pc = "main_loop"
  /\ accounts # <<>>
  /\ LET acc == Head(accounts) IN
       /\ token' = [token EXCEPT ![acc] = Jwt]
       /\ sync' = [src_acct |-> MainAccount, dest_acct |-> acc,
                   from_backup |-> comms_backup,
                   src_comms |-> {}, dest_comms |-> {}, new_communities |-> <<>>]
       /\ hist' = [hist EXCEPT !.reqs = Req("login", acc)]
  /\ accounts' = Tail(accounts)
  /\ pc' = "sync_entry"
  /\ stack' = <<"main_loop">> \o stack
  /\ UNCHANGED <<rq, cfg, wb, server, importFile, exportFile, user_communities, exitStatus,
                 comms_backup, gc, sub>>

\* for acc in accounts: new_lemming.login(...) succeeded; src and dest are
\* chosen by cfg.u and sync_subscriptions(src, dest, comms_backup) is called.
SecondaryLoginOk ==
  /\ pc = "main_loop"
  /\ accounts # <<>>
  /\ LET acc == Head(accounts) IN
       /\ token' = [token EXCEPT ![acc] = Jwt]
       /\ sync' = [src_acct |-> IF cfg.u THEN acc ELSE MainAccount,
                   dest_acct |-> IF cfg.u THEN MainAccount ELSE acc,
                   from_backup |-> comms_backup,
                   src_comms |-> {}, dest_comms |-> {}, new_communities |-> <<>>]
       /\ hist' = [hist EXCEPT !.reqs = Req("login", acc)]
  /\ accounts' = Tail(accounts)
  /\ pc' = "sync_entry"
  /\ stack' = <<"main_loop">> \o stack
  /\ UNCHANGED <<rq, cfg, wb, server, importFile, exportFile, user_communities, exitStatus,
                 comms_backup, gc, sub>>

\* login's handler only prints, and main goes on to sync with the client.
SecondaryLoginFail_Sync ==
  /\ pc = "main_loop"
  /\ accounts # <<>>
  /\ LET acc == Head(accounts) IN
       /\ sync' = [src_acct |-> IF cfg.u THEN acc ELSE MainAccount,
                   dest_acct |-> IF cfg.u THEN MainAccount ELSE acc,
                   from_backup |-> comms_backup,
                   src_comms |-> {}, dest_comms |-> {}, new_communities |-> <<>>]
       /\ hist' = [hist EXCEPT !.reqs = Req("login", acc),
                               !.loginFailed = @ \cup {acc}]
  /\ accounts' = Tail(accounts)
  /\ pc' = "sync_entry"
  /\ stack' = <<"main_loop">> \o stack
  /\ UNCHANGED <<rq, cfg, wb, server, importFile, exportFile, token, user_communities,
                 exitStatus, comms_backup, gc, sub>>

\* new_lemming.login(...) failed: login's handler calls sys.exit(1), and
\* SystemExit is no Exception, so main's handler does not catch it.
SecondaryLoginFail ==
  /\ pc = "main_loop"
  /\ accounts # <<>>
  /\ Exit(1)
  /\ hist' = [hist EXCEPT !.reqs = Req("login", Head(accounts)),
                          !.loginFailed = @ \cup {Head(accounts)}]
  /\ accounts' = Tail(accounts)
  /\ UNCHANGED <<rq, cfg, wb, server, importFile, exportFile, token, user_communities, stack,
                 comms_backup, sync, gc, sub>>

\* The loop is exhausted: main returns.
MainDone ==
  /\ pc = "main_loop"
  /\ accounts = <<>>
  /\ Exit(0)
  /\ UNCHANGED <<rq, cfg, wb, accounts, server, importFile, exportFile, token, user_communities,
                 stack, comms_backup, sync, gc, sub, hist>>

\* The locals of a function that has not been called.
NoSync == [src_acct |-> MainAccount, dest_acct |-> MainAccount, from_backup |-> None,
           src_comms |-> {}, dest_comms |-> {}, new_communities |-> <<>>]
NoSub == [self |-> MainAccount, communities |-> <<>>, url |-> None, comm_id |-> None]
NoGc == [self |-> MainAccount, page |-> FirstPage, fetched |-> PageLimit]

\* ---------------------------------------------------- the orchestrator run
\* The import files tried: unreadable, the empty object, and one backup per
\* set of communities.
ImportFiles ==
  {None, Some(<<>>)} \cup {Some(JsonDump(MainAccount, SortedList(S))) : S \in SUBSET ScenarioActorIds}

Init ==
  /\ cfg \in [u : BOOLEAN, e : BOOLEAN, i : BOOLEAN]
  /\ accounts = [n \in 1..NumSecondary |-> n]
  /\ server \in [Accounts -> SUBSET ScenarioActorIds]
  /\ importFile \in (IF cfg.i THEN ImportFiles ELSE {None})
  /\ exportFile = None
  /\ token = [a \in Accounts |-> NoToken]
  /\ user_communities = [a \in Accounts |-> {}]
  /\ pc = "main_login"
  /\ stack = <<>>
  /\ exitStatus = None
  /\ comms_backup = None
  /\ wb = MainAccount
  /\ sync = NoSync
  /\ gc = NoGc
  /\ sub = NoSub
  /\ rq = NoRq
  /\ hist = HistInit

Next ==
  \/ MainLoginOk \/ MainLoginFail \/ MainExport \/ MainExported
  \/ MainImport \/ MainImportFail \/ MainNoImport
  \/ SecondaryLoginOk \/ SecondaryLoginFail \/ MainDone
  \/ WriteBackupList \/ WriteBackupDump \/ WriteBackupFail
  \/ SyncFromBackup \/ SyncFromSource \/ SyncSourceListed \/ SyncDiff \/ SyncReturn
  \/ FetchPageOk \/ FetchPageFail \/ GetCommunitiesReturn
  \/ ResolveOk \/ ResolveFail \/ FollowOk \/ FollowNot200 \/ FollowFail \/ SubscribeReturn

Spec == Init /\ [][Next]_vars

\* ------------------------------------------------ the pagination scenario
\* One logged-in, freshly constructed client whose account holds n
\* subscriptions, 0 <= n <= MaxItems, calls get_communities once.
InitPage ==
  /\ cfg = [u |-> FALSE, e |-> FALSE, i |-> FALSE]
  /\ accounts = <<>>
  /\ \E n \in 0..MaxItems :
       server = [a \in Accounts |-> IF a = MainAccount THEN {Actor(k) : k \in 1..n} ELSE {}]
  /\ importFile = None
  /\ exportFile = None
  /\ token = [a \in Accounts |-> IF a = MainAccount THEN Jwt ELSE NoToken]
  /\ user_communities = [a \in Accounts |-> {}]
  /\ pc = "gc_loop"
  /\ stack = <<"page_done">>
  /\ exitStatus = None
  /\ comms_backup = None
  /\ wb = MainAccount
  /\ sync = NoSync
  /\ gc = NoGc
  /\ sub = NoSub
  /\ rq = NoRq
  /\ hist = HistInit

NextPage == FetchPageOk \/ FetchPageFail \/ GetCommunitiesReturn

SpecPage == InitPage /\ [][NextPage]_vars

\* ------------------------------------------------------ the sync scenario
\* sync_subscriptions is called MaxRuns times in a row on one pair of
\* logged-in, freshly constructed clients, with or without a backup set.
InitSync ==
  /\ cfg = [u |-> FALSE, e |-> FALSE, i |-> FALSE]
  /\ accounts = <<>>
  /\ \E A, B \in SUBSET ActorIds :
       server = [a \in Accounts |-> IF a = 0 THEN A ELSE IF a = 1 THEN B ELSE {}]
  /\ importFile = None
  /\ exportFile = None
  /\ token = [a \in Accounts |-> IF a \in {0, 1} THEN Jwt ELSE NoToken]
  /\ user_communities = [a \in Accounts |-> {}]
  /\ pc = "sync_entry"
  /\ stack = <<"sync_done">>
  /\ exitStatus = None
  /\ comms_backup = None
  /\ wb = MainAccount
  /\ \E src \in {0, 1}, backup \in {None} \cup {Some(S) : S \in SUBSET ActorIds} :
       sync = [NoSync EXCEPT !.src_acct = src, !.dest_acct = 1 - src, !.from_backup = backup]
  /\ gc = NoGc
  /\ sub = NoSub
  /\ rq = NoRq
  /\ hist = [HistInit EXCEPT !.run = 1]

\* The caller calls sync_subscriptions again with the same arguments.
SyncAgain ==
  /\ pc = "sync_done"
  /\ hist.run < MaxRuns
  /\ pc' = "sync_entry"
  /\ stack' = <<"sync_done">>
  /\ hist' = [hist EXCEPT !.run = @ + 1,
                          !.prevFailed = hist.s.resolveFailed \cup hist.s.followUnconfirmed,
                          !.prevFollowed = hist.s.followed,
                          !.s = HistSub, !.y = HistSync, !.fetch = HistCall]
  /\ UNCHANGED <<rq, cfg, wb, accounts, server, importFile, exportFile, token, user_communities,
                 exitStatus, comms_backup, sync, gc, sub>>

NextSync ==
  \/ SyncAgain
  \/ SyncFromBackup \/ SyncFromSource \/ SyncSourceListed \/ SyncDiff \/ SyncReturn
  \/ FetchPageOk \/ FetchPageFail \/ GetCommunitiesReturn
  \/ ResolveOk \/ ResolveFail \/ FollowOk \/ FollowNot200 \/ FollowFail \/ SubscribeReturn

SpecSync == InitSync /\ [][NextSync]_vars

\* ------------------------------------------------- the subscribe scenario
\* subscribe is called on a logged-in client with any list of at most MaxLen
\* references (repeated ones and a numeric id included).
SubscribeRefs == ActorIds \cup {CommunityId(1)}

InitSubscribe ==
  /\ cfg = [u |-> FALSE, e |-> FALSE, i |-> FALSE]
  /\ accounts = <<>>
  /\ server = [a \in Accounts |-> {}]
  /\ importFile = None
  /\ exportFile = None
  /\ \E list \in SeqsUpTo(SubscribeRefs, MaxLen) :
       /\ token = [a \in Accounts |-> IF a = 1 THEN Jwt ELSE NoToken]
       /\ sub = [NoSub EXCEPT !.self = 1, !.communities = list]
       /\ rq = NoRq
       /\ hist = [HistInit EXCEPT !.s = HistSubFor(list)]
  /\ user_communities = [a \in Accounts |-> {}]
  /\ pc = "sub_loop"
  /\ stack = <<"sub_done">>
  /\ exitStatus = None
  /\ comms_backup = None
  /\ wb = MainAccount
  /\ sync = NoSync
  /\ gc = NoGc

NextSubscribe ==
  ResolveOk \/ ResolveFail \/ FollowOk \/ FollowNot200 \/ FollowFail \/ SubscribeReturn

SpecSubscribe == InitSubscribe /\ [][NextSubscribe]_vars

\* ---------------------------------------------------- the backup scenario
\* write_backup on a logged-in, freshly constructed client of any account,
\* then read_backup of the file it wrote.
InitBackup ==
  /\ cfg = [u |-> FALSE, e |-> TRUE, i |-> FALSE]
  /\ accounts = <<>>
  /\ \E account \in Accounts, S \in SUBSET ActorIds :
       /\ wb = account
       /\ server = [a \in Accounts |-> IF a = account THEN S ELSE {}]
       /\ token = [a \in Accounts |-> IF a = account THEN Jwt ELSE NoToken]
  /\ importFile = None
  /\ exportFile = None
  /\ user_communities = [a \in Accounts |-> {}]
  /\ pc = "wb_entry"
  /\ stack = <<"backup_written">>
  /\ exitStatus = None
  /\ comms_backup = None
  /\ sync = NoSync
  /\ gc = NoGc
  /\ sub = NoSub
  /\ rq = NoRq
  /\ hist = HistInit

\* read_backup(file) of the file just written: data = json.load(f), the
\* comprehension, return comms.
ReadBackupOk ==
  /\ pc = "backup_written"
  /\ exportFile # None
  /\ comms_backup' = Some(read_backup(exportFile[1]))
  /\ pc' = "backup_read"
  /\ UNCHANGED <<rq, cfg, wb, accounts, server, importFile, exportFile, token, user_communities,
                 stack, exitStatus, sync, gc, sub, hist>>

\* open() or json.load raised: read_backup logs and calls sys.exit(1).
ReadBackupFail ==
  /\ pc = "backup_written"
  /\ exportFile = None
  /\ Exit(1)
  /\ UNCHANGED <<rq, cfg, wb, accounts, server, importFile, exportFile, token, user_communities,
                 stack, comms_backup, sync, gc, sub, hist>>

NextBackup ==
  \/ WriteBackupList \/ WriteBackupDump \/ WriteBackupFail
  \/ FetchPageOk \/ FetchPageFail \/ GetCommunitiesReturn
  \/ ReadBackupOk \/ ReadBackupFail

SpecBackup == InitBackup /\ [][NextBackup]_vars

\* ================================================================ claims

\* C1 (as amended): after sync_subscriptions returns, every community of the
\* source set is subscribed on the destination's site, except those whose
\* resolve request failed or whose follow request did not end in a 200.
C1_SupersetUnlessUnconfirmed ==
  pc = "sync_done" =>
    \A k \in hist.y.srcSet :
      \/ k \in server[sync.dest_acct]
      \/ k \in hist.s.resolveFailed
      \/ k \in hist.s.followUnconfirmed

\* C1 (as stated): ... except only those whose resolve request failed.
C1_SupersetUnlessResolveFailed ==
  pc = "sync_done" =>
    \A k \in hist.y.srcSet : k \in server[sync.dest_acct] \/ k \in hist.s.resolveFailed

\* A first sync that found a deficit and subscribed all of it.
C1_Witness ==
  /\ pc = "sync_done"
  /\ hist.run = 1
  /\ hist.y.srcSet \ hist.y.destSet # {}
  /\ hist.s.followed = hist.y.srcSet \ hist.y.destSet
  /\ hist.y.srcSet \subseteq server[sync.dest_acct]

\* C2 (as amended): in a run of sync_subscriptions that follows another on
\* the same pair, resolve and follow requests are issued only for
\* communities whose resolve or follow request failed in the run before; when
\* none failed, none is issued.
C2_SecondRunOnlyRetriesFailures ==
  hist.run >= 2 =>
    \A r \in Refs :
      (hist.s.nResolve[r] > 0 \/ hist.s.nFollow[r] > 0) => r \in hist.prevFailed

\* C2 (as stated): the second run issues no resolve and no follow request.
C2_SecondRunIssuesNothing ==
  hist.run >= 2 => \A r \in Refs : hist.s.nResolve[r] = 0 /\ hist.s.nFollow[r] = 0

\* The second run has returned after a first run that subscribed something
\* and in which nothing failed.
C2_Witness ==
  /\ pc = "sync_done"
  /\ hist.run = 2
  /\ hist.prevFollowed # {}
  /\ hist.prevFailed = {}
  /\ hist.y.gcCalled # {}

\* C3 (as stated): the failed login of a secondary account does not end the
\* process: the run never exits with status 1 because of it.
C3_SecondaryLoginFailureNonFatal ==
  \A a \in hist.loginFailed \cap Secondary : exitStatus # Some(1)

\* A sync of the orchestrator has returned to the loop of main.
SyncReturnedToMain == pc = "main_loop" /\ hist.y.gcCalled # {}

\* C4 (as amended): in update-main mode every sync that runs has a secondary
\* account as source and the main account as destination, its deficit is what
\* the secondary has and the main lacks, and the main account receives exactly
\* one follow call for each community of the deficit that resolved and none
\* for any other; no follow call is ever issued on a secondary account. In
\* normal mode the main account is the source and no follow call is ever
\* issued on it.
C4_DirectionAndFollowCount ==
  /\ cfg.u => \A a \in Secondary : <<"follow", a>> \notin hist.reqs
  /\ ~cfg.u => <<"follow", MainAccount>> \notin hist.reqs
  /\ SyncReturnedToMain /\ ~cfg.u =>
       sync.src_acct = MainAccount /\ sync.dest_acct \in Secondary
  /\ SyncReturnedToMain /\ cfg.u =>
       /\ sync.src_acct \in Secondary
       /\ sync.dest_acct = MainAccount
       /\ hist.y.deficit = hist.y.srcSet \ hist.y.destSet
       /\ \A k \in Refs :
            hist.s.nFollow[k] = IF k \in hist.y.deficit /\ k \in hist.s.resolved THEN 1 ELSE 0

\* C4 (as stated): ... exactly one follow call for each community the
\* secondary has and the main lacks.
C4_OneFollowPerMissingCommunity ==
  SyncReturnedToMain /\ cfg.u =>
    \A k \in hist.y.srcSet \ hist.y.destSet : hist.s.nFollow[k] = 1

\* Update-main mode, secondary {x, y}, main {x}: one follow call, for y.
C4_Witness ==
  /\ SyncReturnedToMain
  /\ cfg.u
  /\ hist.y.srcSet = {Actor(1), Actor(2)}
  /\ hist.y.destSet = {Actor(1)}
  /\ hist.s.nFollow[Actor(2)] = 1
  /\ hist.s.nFollow[Actor(1)] = 0

\* C5: subscribe visits the references of its list in order, issues exactly
\* one follow call for each reference that resolved and none for one that did
\* not, reaches the end of the list whatever failed, and ends by returning.
C5_SubscribeIsolatesFailures ==
  LET t == hist.s.trail
      list == hist.s.subList
  IN /\ exitStatus = None
     /\ pc \in {"sub_loop", "sub_follow", "sub_done"}
     /\ Len(t) <= Len(list)
     /\ \A i \in DOMAIN t : t[i].url = list[i]
     /\ \A i \in DOMAIN t :
          (i < Len(t) \/ pc # "sub_follow") =>
            t[i].follows = IF t[i].resolved THEN 1 ELSE 0
     /\ pc = "sub_done" => Len(t) = Len(list)

\* Three references, the second of which failed to resolve: two follow calls.
C5_Witness ==
  /\ pc = "sub_done"
  /\ Len(hist.s.trail) = 3
  /\ hist.s.trail[1].resolved /\ hist.s.trail[1].follows = 1
  /\ ~hist.s.trail[2].resolved /\ hist.s.trail[2].follows = 0
  /\ hist.s.trail[3].resolved /\ hist.s.trail[3].follows = 1
  /\ hist.s.followUnconfirmed # {}

\* C6: on a fresh client whose fetches all succeed, the k-th request asks for
\* page k, the loop goes on only after full pages, and get_communities
\* returns after floor(n/50)+1 requests with exactly the account's n actor ids.
C6_PaginationExhaustiveMinimal ==
  LET n == Cardinality(server[MainAccount])
      got == user_communities[MainAccount]
      f == hist.fetch
  IN f.nFetchFail = 0 =>
       /\ f.lastPage = f.nFetchOk
       /\ gc.page = f.nFetchOk + 1
       /\ f.nFetchOk > 0 => Cardinality(got) = (f.nFetchOk - 1) * PageLimit + gc.fetched
       /\ pc = "page_done" =>
            /\ gc.fetched < PageLimit
            /\ f.nFetchOk = (n \div PageLimit) + 1
            /\ got = server[MainAccount]

\* 130 subscriptions, three requests, no failure: all 130 returned.
C6_Witness ==
  /\ pc = "page_done"
  /\ Cardinality(server[MainAccount]) = 130
  /\ hist.fetch.nFetchOk = 3
  /\ hist.fetch.nFetchFail = 0
  /\ Cardinality(user_communities[MainAccount]) = 130

\* C7 (as stated): once a page fetch has failed, no further page fetch is
\* issued in that call of get_communities.
C7_FailedFetchEndsPaging == ~hist.fetch.fetchedAfterFail

\* C8: when the main account's login fails the process ends with status 1
\* having issued that login request and no other, holding no token and
\* having written no backup file.
C8_MainLoginFailureIsFatal ==
  MainAccount \in hist.loginFailed =>
    /\ pc = "exit"
    /\ exitStatus = Some(1)
    /\ hist.reqs = {<<"login", MainAccount>>}
    /\ exportFile = None
    /\ comms_backup = None
    /\ \A a \in Accounts : token[a] = NoToken

\* The main login has failed.
C8_Witness == MainAccount \in hist.loginFailed /\ exitStatus # None

\* C9 (as stated): with a backup set given, whatever its value, the source
\* account's get_communities is not called and the deficit is the backup
\* minus the destination's listing.
C9_BackupUsedVerbatim ==
  sync.from_backup # None =>
    /\ sync.src_acct \notin hist.y.gcCalled
    /\ pc = "sync_done" => hist.y.deficit = sync.from_backup[1] \ sync.dest_comms

\* C10: read_backup of the file write_backup wrote yields the set
\* write_backup got from get_communities, which is the account's set.
C10_BackupRoundTrip ==
  pc = "backup_read" =>
    /\ comms_backup = Some(user_communities[wb])
    /\ user_communities[wb] = server[wb]

\* A backup of two communities has been written and read back.
C10_Witness ==
  /\ pc = "backup_read"
  /\ Cardinality(server[wb]) = 2
  /\ Cardinality(comms_backup[1]) = 2

\* C11 (as stated): the set get_communities returns holds actor ids only, and
\* the destination size a sync reports is the number of actor ids listed.
C11_ListingHoldsOnlyActorIds ==
  /\ pc \in {"sync_src_listed", "sync_diff"} =>
       \A r \in user_communities[gc.self] : IsActor(r)
  /\ pc = "sync_diff" =>
       Cardinality(user_communities[sync.dest_acct]) = Cardinality(server[sync.dest_acct])

\* sync_subscriptions is past the computation of new_communities.
DeficitComputed == pc \in {"sub_loop", "sub_follow", "sync_return", "sync_done"}

\* C13: new_communities lists, each once, exactly the source set minus the
\* set the destination's get_communities returned; subscribe is entered only
\* with a non-empty list, which is that list; and resolve and follow requests
\* are issued only for communities of it, none of which the destination
\* listing holds.
C13_DeficitIsExact ==
  DeficitComputed =>
    LET new == sync.new_communities IN
      /\ Range(new) = sync.src_comms \ sync.dest_comms
      /\ Len(new) = Cardinality(Range(new))
      /\ hist.y.destSet \subseteq sync.dest_comms
      /\ pc # "sync_done" => new # <<>>
      /\ hist.s.subList = new
      /\ \A r \in Refs :
           (hist.s.nResolve[r] > 0 \/ hist.s.nFollow[r] > 0) =>
             r \in Range(new) /\ r \notin sync.dest_comms /\ r \notin hist.y.destSet

\* A sync has returned whose source held two communities, one of which the
\* destination listed: the other one was followed.
C13_Witness ==
  /\ pc = "sync_done"
  /\ Cardinality(sync.src_comms) = 2
  /\ Cardinality(sync.src_comms \cap sync.dest_comms) = 1
  /\ Cardinality(hist.s.followed) = 1

\* ------------------------------------------------------ the run, scheduled
\* The interpreter always executes the next statement of a run that has not
\* ended; which requests fail is the network's choice.
SpecFair == Init /\ [][Next]_vars /\ WF_vars(Next)

\* C12 (as stated): every run of main ends, whatever requests fail.
C12_RunTerminates == <>(pc = "exit")

\* C14: every list, resolve and follow request recorded was issued by a
\* client that holds a token, and a client whose login succeeded holds its
\* token ever after.
C14_RequestsCarryToken ==
  /\ \A q \in hist.reqs : q[1] # "login" => token[q[2]] = Jwt
  /\ \A a \in Accounts :
       (<<"login", a>> \in hist.reqs /\ a \notin hist.loginFailed) => token[a] = Jwt
  /\ \A a \in Accounts : token[a] \in {NoToken, Jwt}

\* A secondary client has followed a community and the main client has
\* listed, while another account's client has no token yet.
C14_Witness ==
  /\ \E a \in Secondary : <<"follow", a>> \in hist.reqs /\ token[a] = Jwt
  /\ <<"list", MainAccount>> \in hist.reqs
  /\ \E b \in Secondary : token[b] = NoToken

\* C16: with -e, whatever -u and -i are, the only requests of the run are the
\* main login and the listing of the main account; no secondary account is
\* taken from the configuration or logged in, the import file is not read,
\* and once the main login succeeded the run ends only by main's return,
\* after the listing.
C16_ExportIsReadOnly ==
  cfg.e =>
    /\ hist.reqs \subseteq {<<"login", MainAccount>>, <<"list", MainAccount>>}
    /\ \A a \in Secondary : token[a] = NoToken /\ user_communities[a] = {}
    /\ Len(accounts) = NumSecondary
    /\ comms_backup = None
    /\ exportFile # None => pc \in {"main_exported", "exit"}
    /\ (pc = "exit" /\ hist.loginFailed = {}) =>
         /\ exitStatus = Some(0)
         /\ <<"list", MainAccount>> \in hist.reqs

\* An export run with -u and -i given too has written the backup of a
\* non-empty subscription list and returned.
C16_Witness ==
  /\ cfg.e /\ cfg.u /\ cfg.i
  /\ pc = "exit"
  /\ exitStatus = Some(0)
  /\ exportFile # None
  /\ user_communities[MainAccount] # {}

\* sync_subscriptions, called by main, has bound src_comms.
SourceBound ==
  /\ stack # <<>>
  /\ stack[Len(stack)] = "main_loop"
  /\ \/ pc \in {"sync_diff", "sub_loop", "sub_follow", "sync_return"}
     \/ pc = "gc_loop" /\ Head(stack) = "sync_diff"

\* C17: with -u the import file is never read (no backup set exists and the
\* run never ends on an unreadable file), and every sync lists the secondary
\* account and takes that listing as its source; a sync whose source was not
\* listed runs in normal mode with -i and takes the set read from the import
\* file; and in normal mode with -i every sync is handed that same set.
C17_BackupOnlyInNormalMode ==
  /\ cfg.u =>
       /\ comms_backup = None
       /\ exitStatus = Some(1) => hist.loginFailed # {}
       /\ SourceBound =>
            /\ sync.from_backup = None
            /\ sync.src_acct \in Secondary
            /\ sync.src_acct \in hist.y.gcCalled
            /\ sync.src_comms = server[sync.src_acct]
  /\ (SourceBound /\ sync.src_acct \notin hist.y.gcCalled) =>
       /\ cfg.i /\ ~cfg.u
       /\ sync.src_acct = MainAccount
       /\ importFile # None
       /\ sync.src_comms = read_backup(importFile[1])
  /\ (SourceBound /\ cfg.i /\ ~cfg.u) =>
       /\ importFile # None
       /\ sync.from_backup = Some(read_backup(importFile[1]))
       /\ comms_backup = sync.from_backup

\* With -i and -u, the sync of the last secondary account has listed a
\* non-empty source while the import file holds a non-empty backup.
C17_Witness ==
  /\ cfg.i /\ cfg.u
  /\ importFile # None
  /\ read_backup(importFile[1]) # {}
  /\ accounts = <<>>
  /\ pc = "sync_diff"
  /\ sync.src_comms # {}
  /\ sync.src_comms # read_backup(importFile[1])

\* ------------------------------------------------- the request scenario
\* One client's methods are called MaxCalls times in a row; each call goes
\* through _request_it, and any request may fail either way.
Slept == [ev |-> "sleep", kind |-> rq.kind, secs |-> RateLimitSeconds]
Sent == [ev |-> "send", kind |-> rq.kind, secs |-> 0]
\* The comment lists the site may answer with.
CommentLists == {<<>>, <<"c1">>, <<"c1", "c2">>}

\* A method calls self._request_it(...).
ApiCall ==
  /\ pc = "api_idle"
  /\ Len(hist.wrapped) < MaxCalls
  /\ \E kind \in ApiKinds : rq' = [NoRq EXCEPT !.kind = kind]
  /\ pc' = "rq_rate_limit"
  /\ UNCHANGED <<cfg, accounts, server, importFile, exportFile, token, user_communities,
                 stack, exitStatus, comms_backup, wb, sync, gc, sub, hist>>

\* self._rate_limit(): sleep(1).
RateLimit ==
  /\ pc = "rq_rate_limit"
  /\ hist' = [hist EXCEPT !.wire = Append(@, Slept)]
  /\ pc' = "rq_send"
  /\ UNCHANGED <<cfg, accounts, server, importFile, exportFile, token, user_communities,
                 stack, exitStatus, comms_backup, wb, sync, gc, sub, rq>>

\* Control leaves _request_it for the method that called it: get_comments'
\* try statement, or any other method.
ToCaller(call) ==
  /\ rq' = call
  /\ pc' = IF call.kind = "comments" THEN "gcm_try" ELSE "api_idle"
  /\ hist' = [hist EXCEPT !.wrapped = Append(@, [kind |-> call.kind, sends |-> call.sends,
                                                 caught |-> call.caught,
                                                 returned |-> call.returned,
                                                 raised |-> call.raised]),
                          !.wire = IF call.sends > rq.sends THEN Append(@, Sent) ELSE @]

\* r = requests.request(...); r.raise_for_status(); return r.
SendOk ==
  /\ pc = "rq_send"
  /\ ToCaller([rq EXCEPT !.sends = @ + 1, !.returned = TRUE])
  /\ UNCHANGED <<cfg, accounts, server, importFile, exportFile, token, user_communities,
                 stack, exitStatus, comms_backup, wb, sync, gc, sub>>

\* r.raise_for_status() raised HTTPError: the first handler is entered.
SendHTTPError ==
  /\ pc = "rq_send"
  /\ rq' = [rq EXCEPT !.sends = @ + 1, !.caught = Some("HTTPError")]
  /\ hist' = [hist EXCEPT !.wire = Append(@, Sent)]
  /\ pc' = "rq_except"
  /\ UNCHANGED <<cfg, accounts, server, importFile, exportFile, token, user_communities,
                 stack, exitStatus, comms_backup, wb, sync, gc, sub>>

\* requests.request raised a RequestException that is no HTTPError: the
\* second handler is entered.
SendRequestException ==
  /\ pc = "rq_send"
  /\ rq' = [rq EXCEPT !.sends = @ + 1, !.caught = Some("RequestException")]
  /\ hist' = [hist EXCEPT !.wire = Append(@, Sent)]
  /\ pc' = "rq_except"
  /\ UNCHANGED <<cfg, accounts, server, importFile, exportFile, token, user_communities,
                 stack, exitStatus, comms_backup, wb, sync, gc, sub>>

\* A handler that tries the request again.
Reraise_Retry ==
  /\ pc = "rq_except"
  /\ rq' = [rq EXCEPT !.caught = None]
  /\ pc' = "rq_send"
  /\ UNCHANGED <<cfg, accounts, server, importFile, exportFile, token, user_communities,
                 stack, exitStatus, comms_backup, wb, sync, gc, sub, hist>>

\* except ...: raise (either handler).
Reraise ==
  /\ pc = "rq_except"
  /\ ToCaller([rq EXCEPT !.raised = rq.caught])
  /\ UNCHANGED <<cfg, accounts, server, importFile, exportFile, token, user_communities,
                 stack, exitStatus, comms_backup, wb, sync, gc, sub>>

\* get_comments: try: r = self._request_it(...) completed, r is bound.
GetCommentsTryOk ==
  /\ pc = "gcm_try"
  /\ rq.raised = None
  /\ rq' = [rq EXCEPT !.r = Some("response")]
  /\ pc' = "gcm_return"
  /\ UNCHANGED <<cfg, accounts, server, importFile, exportFile, token, user_communities,
                 stack, exitStatus, comms_backup, wb, sync, gc, sub, hist>>

\* A handler that answers with the empty list.
GetCommentsHandler_ReturnsEmpty ==
  /\ pc = "gcm_try"
  /\ rq.raised # None
  /\ hist' = [hist EXCEPT !.comments = Append(@, [fetch |-> rq.raised, returned |-> Some(<<>>),
                                                   raised |-> None])]
  /\ pc' = "api_idle"
  /\ UNCHANGED <<cfg, accounts, server, importFile, exportFile, token, user_communities,
                 stack, exitStatus, comms_backup, wb, sync, gc, sub, rq>>

\* except Exception: the handler prints and falls through; r was never bound.
GetCommentsHandler ==
  /\ pc = "gcm_try"
  /\ rq.raised # None
  /\ pc' = "gcm_return"
  /\ UNCHANGED <<cfg, accounts, server, importFile, exportFile, token, user_communities,
                 stack, exitStatus, comms_backup, wb, sync, gc, sub, rq, hist>>

\* return r.json()["comments"]: reading the unbound local r raises
\* UnboundLocalError; a bound r yields the list the site sent.
GetCommentsReturn ==
  /\ pc = "gcm_return"
  /\ IF rq.r = None
       THEN hist' = [hist EXCEPT !.comments = Append(@, [fetch |-> rq.raised, returned |-> None,
                                                         raised |-> Some("UnboundLocalError")])]
       ELSE \E list \in CommentLists :
              hist' = [hist EXCEPT !.comments = Append(@, [fetch |-> rq.raised,
                                                           returned |-> Some(list),
                                                           raised |-> None])]
  /\ pc' = "api_idle"
  /\ UNCHANGED <<cfg, accounts, server, importFile, exportFile, token, user_communities,
                 stack, exitStatus, comms_backup, wb, sync, gc, sub, rq>>

InitRequest ==
  /\ cfg = [u |-> FALSE, e |-> FALSE, i |-> FALSE]
  /\ accounts = <<>>
  /\ server = [a \in Accounts |-> {}]
  /\ importFile = None
  /\ exportFile = None
  /\ token = [a \in Accounts |-> NoToken]
  /\ user_communities = [a \in Accounts |-> {}]
  /\ pc = "api_idle"
  /\ stack = <<>>
  /\ exitStatus = None
  /\ comms_backup = None
  /\ wb = MainAccount
  /\ sync = NoSync
  /\ gc = NoGc
  /\ sub = NoSub
  /\ rq = NoRq
  /\ hist = HistInit

NextRequest ==
  \/ ApiCall \/ RateLimit \/ SendOk \/ SendHTTPError \/ SendRequestException \/ Reraise
  \/ GetCommentsTryOk \/ GetCommentsHandler \/ GetCommentsReturn

SpecRequest == InitRequest /\ [][NextRequest]_vars

\* C15: on the wire every request comes right after one sleep of
\* RateLimitSeconds made by the same call, and every sleep is followed by
\* nothing but that request; every call of _request_it that has ended sent
\* exactly one request, and it returned the response if the request
\* succeeded and raised the very error it caught (HTTPError or
\* RequestException) otherwise.
C15_OneDelayedRequestPerCall ==
  LET w == hist.wire IN
    /\ \A i \in 1..Len(w) :
         w[i].ev = "send" =>
           /\ i > 1
           /\ w[i - 1].ev = "sleep"
           /\ w[i - 1].kind = w[i].kind
           /\ w[i - 1].secs = RateLimitSeconds
    /\ \A i \in 1..Len(w) : w[i].ev = "sleep" => (i = 1 \/ w[i - 1].ev = "send")
    /\ Cardinality({i \in 1..Len(w) : w[i].ev = "send"})
         = Len(hist.wrapped) + (IF pc = "rq_except" THEN 1 ELSE 0)
    /\ \A j \in 1..Len(hist.wrapped) :
         LET e == hist.wrapped[j] IN
           /\ e.sends = 1
           /\ e.caught = None => (e.returned /\ e.raised = None)
           /\ e.caught # None => (~e.returned /\ e.raised = e.caught)

\* Two calls for different requests have ended, one on an HTTP status error
\* and one on a transport error.
C15_Witness ==
  \E j, k \in 1..Len(hist.wrapped) :
    /\ hist.wrapped[j].raised = Some("HTTPError")
    /\ hist.wrapped[k].raised = Some("RequestException")
    /\ hist.wrapped[j].kind # hist.wrapped[k].kind

\* C18: every call of get_comments whose fetch failed ended by raising, and
\* returned no list; past a failed fetch r is unbound.
C18_GetCommentsFailsLoudly ==
  /\ \A j \in 1..Len(hist.comments) :
       LET e == hist.comments[j] IN
         e.fetch # None => (e.raised # None /\ e.returned = None)
  /\ (pc = "gcm_return" /\ rq.raised # None) => rq.r = None

\* get_comments has returned a non-empty list, and a later call of it, whose
\* fetch failed, has ended.
C18_Witness ==
  \E j, k \in 1..Len(hist.comments) :
    /\ j < k
    /\ hist.comments[j].returned \notin {None, Some(<<>>)}
    /\ hist.comments[k].fetch # None

====
